---- MODULE Spec2Model ----
(***************************************************************************)
(* WerchterNews: the polling monitor (monitor.py), its deduplication store *)
(* (storage_services.py), its delivery pipeline (telegram_services.py) and *)
(* the ordering of news items (models.py, news_services.py).               *)
(*                                                                         *)
(* The program is one asyncio event loop.  Every action below is the code  *)
(* that runs between two consecutive suspension points (await) of a task,  *)
(* so the interleavings of the model are the ones the event loop allows.   *)
(* Time is wall-clock seconds; the clock only takes the instants listed in *)
(* InstantSeq, which straddle the one-hour connection TTL and the 30-day   *)
(* prune threshold.                                                        *)
(***************************************************************************)
EXTENDS Integers, Sequences, FiniteSets, TLC

\* ---------------------------------------------------------------- bounds
NumLinks == 2
MaxDate == 2
MaxBatch == 2
NumInstants == 3
MaxErrors == 1
MaxErrorsDeep == 8

\* ------------------------------------------------------ program constants
max_retries == 3
check_interval == 600
max_age_days == 30
TTL_SECONDS == 3600
BACKOFF_BASE == 30
BACKOFF_CAP == 3600
RETRY_BASE == 5
RETRY_CAP == 60
DAY_SECONDS == 86400

\* ------------------------------------------------------------ value sets
Links == 1..NumLinks
NoDate == 0
Dates == 0..MaxDate
Items == [link : Links, date : Dates]
None == -1
\* A processed_at that is missing or that datetime.fromisoformat rejects.
BadTime == -2

\* The instants the wall clock takes, in seconds since the first one.
InstantSeq ==
    << 0,
       (max_age_days + 1) * DAY_SECONDS,
       (max_age_days + 1) * DAY_SECONDS - 1,
       TTL_SECONDS + 1,
       (max_age_days + 1) * DAY_SECONDS + TTL_SECONDS + 1,
       2 * (max_age_days + 1) * DAY_SECONDS + TTL_SECONDS + 2 >>
Instants ==
    { InstantSeq[i] : i \in 1..(IF NumInstants < Len(InstantSeq)
                                  THEN NumInstants ELSE Len(InstantSeq)) }

Pow2(n) == 2 ^ n
Min(a, b) == IF a < b THEN a ELSE b

SeqsUpTo(S, n) == UNION { [1..k -> S] : k \in 0..n }

\* ------------------------------------------------- models.py: NewsItem
\* NewsItem.__lt__: ascending parsed date, an item without one is never
\* smaller and every dated item is smaller than it.
lt(a, b) ==
    IF a.date = NoDate THEN FALSE
    ELSE IF b.date = NoDate THEN TRUE
    ELSE a.date < b.date

\* sorted(): Python's sort is stable and uses __lt__ only.  x is placed
\* before the first element it is smaller than.
RECURSIVE InsertSorted(_, _)
InsertSorted(x, s) ==
    IF s = << >> THEN << x >>
    ELSE IF lt(x, Head(s)) THEN << x >> \o s
    ELSE << Head(s) >> \o InsertSorted(x, Tail(s))

RECURSIVE SortFrom(_, _)
SortFrom(acc, rest) ==
    IF rest = << >> THEN acc
    ELSE SortFrom(InsertSorted(Head(rest), acc), Tail(rest))

Unsorted(s) == s

sorted(s) == SortFrom(<< >>, s)

\* ------------------------------------- storage_services.py: StorageService
\* A record is kept as its processed_at; title, date, link and image_url are a
\* snapshot of the item that no operation reads back.
NoRec == [processed_at |-> None]
EmptyMap == [l \in Links |-> NoRec]
Keys(m) == { l \in Links : m[l] # NoRec }
Corrupt == [ok |-> FALSE, data |-> EmptyMap]
PersistOutcomes == {"ok", "fail", "partial"}

\* _save_processed_news: writes the mapping; a failure is logged and
\* swallowed.  A write that fails before the file is opened leaves the file
\* as it was ("fail"), one that fails after write_text truncated it leaves
\* an unparsable file ("partial").
save_processed_news(st, outcome) ==
    [st EXCEPT !.saved = TRUE,
               !.file =
        CASE outcome = "ok" -> [ok |-> TRUE, data |-> st.news]
          [] outcome = "fail" -> st.file
          [] OTHER -> Corrupt]

LoadUnreadableAsFull(f) ==
    IF f.ok
    THEN [news |-> f.data, links |-> Keys(f.data), file |-> f, saved |-> FALSE]
    ELSE [news |-> [l \in Links |-> [processed_at |-> 0]], links |-> Links,
          file |-> f, saved |-> FALSE]

LoadStaleIndex(f) ==
    [news |-> IF f.ok THEN f.data ELSE EmptyMap, links |-> {}, file |-> f,
     saved |-> FALSE]

\* _load_processed_news: the file's mapping, or the empty store when the
\* file cannot be read or parsed.
load_processed_news(f) ==
    IF f.ok
    THEN [news |-> f.data, links |-> Keys(f.data), file |-> f, saved |-> FALSE]
    ELSE [news |-> EmptyMap, links |-> {}, file |-> f, saved |-> FALSE]

is_processed(st, item) == item.link \in st.links

NewRecord(item, t) == [processed_at |-> t]

MarkOverwrite(st, item, t, outcome) ==
    save_processed_news(
        [st EXCEPT !.news[item.link] = NewRecord(item, t),
                   !.links = @ \cup {item.link}], outcome)

mark_as_processed(st, item, t, outcome) ==
    IF is_processed(st, item) THEN st
    ELSE save_processed_news(
        [st EXCEPT !.news[item.link] = NewRecord(item, t),
                   !.links = @ \cup {item.link}], outcome)

RECURSIVE FilterReversed(_, _)
FilterReversed(st, s) ==
    IF s = << >> THEN << >>
    ELSE IF s[1].link \in st.links THEN FilterReversed(st, Tail(s))
    ELSE FilterReversed(st, Tail(s)) \o << Head(s) >>

\* get_unprocessed_news lines 97-100: the list comprehension.
RECURSIVE FilterSeq(_, _)
FilterSeq(st, s) ==
    IF s = << >> THEN << >>
    ELSE IF is_processed(st, Head(s)) THEN FilterSeq(st, Tail(s))
    ELSE << Head(s) >> \o FilterSeq(st, Tail(s))

NoFilter(st, s) == s

get_unprocessed_news(st, s) == FilterSeq(st, s)

\* timedelta.days of a non-negative difference: whole days, rounded down.
age_days(t, processed_at) == (t - processed_at) \div DAY_SECONDS

entries_to_remove(st, t) ==
    { l \in Keys(st.news) : age_days(t, st.news[l].processed_at) > max_age_days }

\* cleanup_old_entries lines 113-114: the records whose processed_at makes
\* the loop raise (KeyError, ValueError, TypeError).
unparsable(st) == { l \in Keys(st.news) : st.news[l].processed_at = BadTime }

CleanupSkipsUnparsable(st, t, outcome) ==
    LET rem == { l \in Keys(st.news) \ unparsable(st) :
                   age_days(t, st.news[l].processed_at) > max_age_days } IN
    IF rem = {} THEN st
    ELSE save_processed_news(
        [st EXCEPT !.news = [l \in Links |-> IF l \in rem THEN NoRec ELSE @[l]],
                   !.links = @ \ rem], outcome)

CleanupAlwaysSaves(st, t, outcome) ==
    LET rem == entries_to_remove(st, t) IN
    save_processed_news(
        [st EXCEPT !.news = [l \in Links |-> IF l \in rem THEN NoRec ELSE @[l]],
                   !.links = @ \ rem], outcome)

\* cleanup_old_entries lines 109-129: the old records are removed from the
\* mapping and the index, and the file is written only when there were some.
\* A record that makes the first loop raise ends the call in the handler of
\* line 128, before anything was removed.
cleanup_old_entries(st, t, outcome) ==
    LET rem == entries_to_remove(st, t) IN
    IF unparsable(st) # {} THEN st
    ELSE IF rem = {} THEN st
    ELSE save_processed_news(
        [st EXCEPT !.news = [l \in Links |-> IF l \in rem THEN NoRec ELSE @[l]],
                   !.links = @ \ rem], outcome)

\* ---------------------------------- telegram_services.py / monitor.py waits
NoBackoff(n) == check_interval

backoff_wait(n) == Min(Pow2(n) * BACKOFF_BASE, BACKOFF_CAP)

RetryWaitOffByOne(attempt) == Min(Pow2(attempt + 1) * RETRY_BASE, RETRY_CAP)

retry_wait(attempt) == Min(Pow2(attempt) * RETRY_BASE, RETRY_CAP)

\* What the source returns in one fetch, in page order (before sorted()).
Batches == SeqsUpTo(Items, MaxBatch)

\* ------------------------------------------------------------------ state
VARIABLES
    now,                  \* datetime.now()
    processed_news,       \* StorageService._processed_news
    processed_links,      \* StorageService._processed_links
    file,                 \* data/processed_news.json
    saved,                \* the latest store operation called _save_processed_news
    application,          \* TelegramService._application is set
    bot,                  \* TelegramService._bot is set
    last_initialization,  \* TelegramService._last_initialization
    initialization_lock,  \* TelegramService._initialization_lock is held
    pc,                   \* where WerchterMonitor.run / main is
    consecutive_errors,   \* run(): consecutive_errors
    wait_time,            \* run(): seconds of the sleep in progress
    shutdown_event,       \* WerchterMonitor._shutdown_event
    news_items,           \* _check_for_updates(): news_items (until the loop starts)
    unprocessed_news,     \* _process_news_batch(): unprocessed_news
    attempt,              \* send_notification(): attempt, of the latest send
    waits,                \* send_notification(): the sleeps of the latest send
    results,              \* how the send of each handled item of the batch ended
    sent,                 \* the items send_notification was called with, in call order
    marked,               \* positions in the batch mark_as_processed was called for
    tries,                \* delivery attempts started by the latest send
    fetch_status,         \* how get_news ended in this cycle
    prunes,               \* cleanup_old_entries calls made by this cycle
    accepted              \* links the Messaging Client has accepted a message for

store_vars == << processed_news, processed_links, file, saved >>
conn_vars == << application, bot, last_initialization, initialization_lock >>
batch_vars == << news_items, unprocessed_news, attempt, waits, results,
                 sent, marked, tries, fetch_status, prunes >>
vars == << now, processed_news, processed_links, file, saved, application,
           bot, last_initialization, initialization_lock, pc, consecutive_errors, wait_time,
           shutdown_event, news_items, unprocessed_news, attempt, waits,
           results, sent, marked, tries, fetch_status, prunes, accepted >>

\* The store as an operation finds it; it has not saved yet.
St == [news |-> processed_news, links |-> processed_links, file |-> file,
       saved |-> FALSE]

SetStore(st) ==
    /\ processed_news' = st.news
    /\ processed_links' = st.links
    /\ file' = st.file
    /\ saved' = st.saved

\* The suspension points (await) of the main task.
Suspended == {"fetching", "sending", "backoff", "sleeping"}

\* WerchterMonitor.__init__ on a first run: the file is created empty and loaded.
Init ==
    /\ now = InstantSeq[1]
    /\ processed_news = EmptyMap
    /\ processed_links = {}
    /\ file = [ok |-> TRUE, data |-> EmptyMap]
    /\ saved = FALSE
    /\ application = FALSE
    /\ bot = FALSE
    /\ last_initialization = None
    /\ initialization_lock = FALSE
    /\ pc = "start"
    /\ consecutive_errors = 0
    /\ wait_time = 0
    /\ shutdown_event = FALSE
    /\ news_items = << >>
    /\ unprocessed_news = << >>
    /\ attempt = 0
    /\ waits = << >>
    /\ results = << >>
    /\ sent = << >>
    /\ marked = {}
    /\ tries = 0
    /\ fetch_status = "none"
    /\ prunes = 0
    /\ accepted = {}

\* ----------------------------------------------- monitor.py: run()
CycleAsFailure ==
    /\ consecutive_errors' = 1
    /\ wait_time' = backoff_wait(1)
    /\ pc' = "sleeping"

\* run() lines 88-96: a cycle that raised nothing.
CycleSuccess ==
    /\ consecutive_errors' = 0
    /\ wait_time' = check_interval
    /\ pc' = "sleeping"

LoopStopsWhenCritical ==
    IF shutdown_event \/ consecutive_errors >= 5
    THEN /\ pc' = "exited"
         /\ wait_time' = 0
         /\ UNCHANGED << news_items, unprocessed_news, attempt, waits, results,
                         sent, marked, tries, fetch_status, prunes >>
    ELSE /\ pc' = "fetching"
         /\ wait_time' = 0
         /\ news_items' = << >>
         /\ unprocessed_news' = << >>
         /\ attempt' = 0
         /\ waits' = << >>
         /\ results' = << >>
         /\ sent' = << >>
         /\ marked' = {}
         /\ tries' = 0
         /\ fetch_status' = "none"
         /\ prunes' = 0

LoopNeverStops ==
    /\ pc' = "fetching"
    /\ wait_time' = 0
    /\ news_items' = << >>
    /\ unprocessed_news' = << >>
    /\ attempt' = 0
    /\ waits' = << >>
    /\ results' = << >>
    /\ sent' = << >>
    /\ marked' = {}
    /\ tries' = 0
    /\ fetch_status' = "none"
    /\ prunes' = 0

\* run() line 85: the loop test, then _check_for_updates up to the await in
\* get_news; or the loop ends.
LoopTest ==
    IF shutdown_event
    THEN /\ pc' = "exited"
         /\ wait_time' = 0
         /\ UNCHANGED batch_vars
    ELSE /\ pc' = "fetching"
         /\ wait_time' = 0
         /\ news_items' = << >>
         /\ unprocessed_news' = << >>
         /\ attempt' = 0
         /\ waits' = << >>
         /\ results' = << >>
         /\ sent' = << >>
         /\ marked' = {}
         /\ tries' = 0
         /\ fetch_status' = "none"
         /\ prunes' = 0

\* run() is entered.
Start ==
    /\ pc = "start"
    /\ LoopTest
    /\ UNCHANGED << now, store_vars, conn_vars, consecutive_errors,
                    shutdown_event, accepted >>

\* run() lines 96 and 114: the sleep is over.
WaitDone ==
    /\ pc = "sleeping"
    /\ LoopTest
    /\ UNCHANGED << now, store_vars, conn_vars, consecutive_errors,
                    shutdown_event, accepted >>

\* _process_news_batch lines 162-173 on what get_news returned.
ProcessBatchStart(items) ==
    LET unp == get_unprocessed_news(St, items) IN
    /\ news_items' = items
    /\ unprocessed_news' = (IF items = << >> THEN << >> ELSE unp)
    /\ IF items = << >> \/ unp = << >>
       THEN CycleSuccess
       ELSE /\ pc' = "item"
            /\ UNCHANGED << consecutive_errors, wait_time >>
    /\ UNCHANGED << attempt, waits, results, sent, marked, tries, prunes >>

\* get_news lines 24-34: status 200, the parsed cards sorted.
FetchOkFrom(batches) ==
    /\ pc = "fetching"
    /\ \E raw \in batches :
         /\ fetch_status' = "ok"
         /\ ProcessBatchStart(sorted(raw))
    /\ UNCHANGED << now, store_vars, conn_vars, shutdown_event, accepted >>

FetchOk == FetchOkFrom(Batches)

\* get_news lines 26-28 and 36-38: a non-200 status or a network error is
\* logged and an empty list is returned.
FetchFailed ==
    /\ pc = "fetching"
    /\ fetch_status' = "failed"
    /\ ProcessBatchStart(<< >>)
    /\ UNCHANGED << now, store_vars, conn_vars, shutdown_event, accepted >>

\* run() lines 98-114: an exception escaped _check_for_updates (no code path
\* of the repository raises one; the handler is there for the unforeseen).
CycleErrorUpTo(n) ==
    /\ pc = "fetching"
    /\ consecutive_errors < n
    /\ consecutive_errors' = consecutive_errors + 1
    /\ wait_time' = backoff_wait(consecutive_errors')
    /\ pc' = "sleeping"
    /\ fetch_status' = "raised"
    /\ UNCHANGED << now, store_vars, conn_vars, shutdown_event, accepted,
                    news_items, unprocessed_news, attempt, waits, results,
                    sent, marked, tries, prunes >>

CycleError == CycleErrorUpTo(MaxErrors)

\* The same two steps for a source that lists one item at most, where the
\* errors may pile up to MaxErrorsDeep.
SmallBatches == SeqsUpTo({[link |-> 1, date |-> 1]}, 1)

FetchSmall == FetchOkFrom(SmallBatches)

CycleErrorDeep == CycleErrorUpTo(MaxErrorsDeep)

\* ------------------------------ telegram_services.py: TelegramService
Conn == [application |-> application, bot |-> bot,
         last_initialization |-> last_initialization]

SetConn(c) ==
    /\ application' = c.application
    /\ bot' = c.bot
    /\ last_initialization' = c.last_initialization

CleanupKeepsTime(c) ==
    IF c.application
    THEN [application |-> FALSE, bot |-> FALSE,
          last_initialization |-> c.last_initialization]
    ELSE c

\* _cleanup lines 127-136: nothing without a connection, else everything cleared.
cleanup(c) ==
    IF c.application
    THEN [application |-> FALSE, bot |-> FALSE, last_initialization |-> None]
    ELSE c

NeedsInitAtTTL(c, t) ==
    \/ ~c.bot
    \/ c.last_initialization = None
    \/ t - c.last_initialization >= TTL_SECONDS

\* _ensure_initialized lines 46-52.
needs_initialization(c, t) ==
    \/ ~c.bot
    \/ c.last_initialization = None
    \/ t - c.last_initialization > TTL_SECONDS

\* _initialize lines 61-81: an old connection is torn down, a new one built;
\* when building fails everything is cleared and the error is raised.
initialize(c, t, built) ==
    IF built
    THEN [application |-> TRUE, bot |-> TRUE, last_initialization |-> t]
    ELSE cleanup(cleanup(c))

\* ------------------------------ monitor.py: _process_news_batch, the loop
MarkAlways(outcome) == TRUE

\* lines 180-184: only a send that returned True is marked.
should_mark(outcome) == outcome = "ok"

\* lines 175, 186-191: the loop goes on to the next item whatever happened.
loop_continues(outcome, done, total) == done < total

\* The item the loop is handling.
Current == unprocessed_news[Len(results) + 1]

\* Lines 178-191 once the item's send has ended with `outcome`: the mark, then
\* the next turn of the loop, or the end of the loop.
ItemDone(outcome) ==
    LET res == Append(results, outcome) IN
    /\ results' = res
    /\ IF should_mark(outcome)
       THEN /\ marked' = marked \cup {Len(res)}
            /\ \E o \in PersistOutcomes :
                 SetStore(mark_as_processed(St, Current, now, o))
       ELSE UNCHANGED << marked, store_vars >>
    /\ pc' = (IF loop_continues(outcome, Len(res), Len(unprocessed_news))
              THEN "item" ELSE "prune")
    /\ UNCHANGED << consecutive_errors, wait_time, prunes, news_items,
                    unprocessed_news, sent, fetch_status >>

\* line 194, then run() lines 88-96: the prune that ends the batch, and the
\* cycle is over.  _process_news_batch returns and its locals are gone.
BatchPrune ==
    /\ pc = "prune"
    /\ \E o \in PersistOutcomes : SetStore(cleanup_old_entries(St, now, o))
    /\ prunes' = prunes + 1
    /\ CycleSuccess
    /\ unprocessed_news' = << >>
    /\ attempt' = 0
    /\ waits' = << >>
    /\ results' = << >>
    /\ sent' = << >>
    /\ marked' = {}
    /\ tries' = 0
    /\ UNCHANGED << now, conn_vars, shutdown_event, accepted, news_items,
                    fetch_status >>

\* lines 175-178: the next item; send_notification is called and starts with
\* attempt 0.  news_items is not read after line 167 and is forgotten here.
ItemBegin ==
    /\ pc = "item"
    /\ sent' = Append(sent, Current)
    /\ attempt' = 0
    /\ waits' = << >>
    /\ tries' = 0
    /\ news_items' = << >>
    /\ pc' = "try"
    /\ UNCHANGED << now, store_vars, conn_vars, consecutive_errors,
                    wait_time, shutdown_event, unprocessed_news,
                    results, marked, fetch_status, prunes, accepted >>

NeverLastAttempt(a) == a = max_retries

\* send_notification line 114.
is_last_attempt(a) == a = max_retries - 1

\* send_notification lines 107-121: the attempt raised.
AttemptFailed ==
    IF is_last_attempt(attempt)
    THEN /\ ItemDone("fail")
         /\ UNCHANGED << attempt, waits >>
    ELSE /\ waits' = Append(waits, retry_wait(attempt))
         /\ pc' = "backoff"
         /\ UNCHANGED << store_vars, consecutive_errors, wait_time, attempt,
                         results, sent, marked, news_items, unprocessed_news,
                         fetch_status, prunes >>

\* get_bot line 34: the attempt enters get_bot and takes the lock, which is
\* free (the main task is the only caller of get_bot).
LockAcquire ==
    /\ pc = "try"
    /\ ~initialization_lock
    /\ initialization_lock' = TRUE
    /\ pc' = "locked"
    /\ UNCHANGED << now, store_vars, application, bot, last_initialization,
                    consecutive_errors, wait_time, shutdown_event, batch_vars,
                    accepted >>

\* get_bot lines 34-36 with a connection that is still fresh, or one that
\* was (re)built: the lock is released and the attempt reaches the await of
\* bot.send_*.
AttemptBegin ==
    /\ pc = "locked"
    /\ IF needs_initialization(Conn, now)
       THEN SetConn(initialize(Conn, now, TRUE))
       ELSE UNCHANGED << application, bot, last_initialization >>
    /\ initialization_lock' = FALSE
    /\ tries' = tries + 1
    /\ pc' = "sending"
    /\ UNCHANGED << now, store_vars, consecutive_errors, wait_time,
                    shutdown_event, news_items, unprocessed_news, attempt,
                    waits, results, sent, marked, fetch_status, prunes,
                    accepted >>

\* get_bot lines 33-40: building the connection raised under the lock;
\* _initialize cleared everything, the lock is released, and the _cleanup of
\* line 39 finds nothing left to tear down.  The attempt failed.
InitFailed ==
    /\ pc = "locked"
    /\ needs_initialization(Conn, now)
    /\ SetConn(cleanup(initialize(Conn, now, FALSE)))
    /\ initialization_lock' = FALSE
    /\ tries' = tries + 1
    /\ AttemptFailed
    /\ UNCHANGED << now, shutdown_event, accepted >>

\* send_notification lines 89-105: the Messaging Client accepted the message.
SendOk ==
    /\ pc = "sending"
    /\ accepted' = accepted \cup {Current.link}
    /\ ItemDone("ok")
    /\ UNCHANGED << now, conn_vars, shutdown_event, attempt, waits, tries >>

\* bot.send_* raised: get_bot lines 37-40 tear the connection down, after
\* the `async with` of line 34 has ended.
SendFailed ==
    /\ pc = "sending"
    /\ SetConn(cleanup(Conn))
    /\ UNCHANGED initialization_lock
    /\ AttemptFailed
    /\ UNCHANGED << now, shutdown_event, accepted, tries >>

\* send_notification line 121: the sleep between two attempts is over.
BackoffDone ==
    /\ pc = "backoff"
    /\ attempt' = attempt + 1
    /\ pc' = "try"
    /\ UNCHANGED << now, store_vars, conn_vars, consecutive_errors,
                    wait_time, shutdown_event, news_items, unprocessed_news,
                    results, sent, marked, tries, waits, fetch_status, prunes,
                    accepted >>

\* monitor.py lines 186-191: while the item is handled an exception reaches
\* the loop's handler.  It is none of the failures of a delivery attempt,
\* which send_notification handles itself, and no code path of the repository
\* raises one.  It is logged and the loop continues.
ItemRaised ==
    /\ pc = "sending"
    /\ ItemDone("raise")
    /\ UNCHANGED << now, conn_vars, shutdown_event, accepted, attempt, waits,
                    tries >>

\* ------------------------------ monitor.py: shutdown(), main()
ShutdownWithoutPrune(o) ==
    /\ shutdown_event' = TRUE
    /\ UNCHANGED conn_vars
    /\ UNCHANGED store_vars

\* shutdown() lines 123-138.  TelegramService has no method `cleanup`, so
\* line 127 raises AttributeError, which line 129 catches: the connection
\* is left as it is.  Then the store is pruned.
shutdown_body(o) ==
    /\ shutdown_event' = TRUE
    /\ UNCHANGED conn_vars
    /\ SetStore(cleanup_old_entries(St, now, o))

\* main.signal_handler lines 208-212: a termination signal arrives while the
\* main task is suspended; the handler creates a task that runs shutdown(),
\* and the event loop runs it to its end (shutdown() never suspends, see
\* above) while the main task is still suspended.
SignalShutdown ==
    /\ pc \in Suspended
    /\ \E o \in PersistOutcomes : shutdown_body(o)
    /\ UNCHANGED << now, pc, consecutive_errors, wait_time, batch_vars, accepted >>

\* main lines 228-231: run() returned, shutdown() is called once more.
FinalShutdown ==
    /\ pc = "exited"
    /\ \E o \in PersistOutcomes : shutdown_body(o)
    /\ pc' = "stopped"
    /\ UNCHANGED << now, consecutive_errors, wait_time, batch_vars, accepted >>

\* The process ends (it stopped, or was killed while it slept) and is started
\* again: WerchterMonitor.__init__ loads the store from the file.
RestartFrom(f) ==
    /\ pc \in {"sleeping", "stopped"}
    /\ SetStore(load_processed_news(f))
    /\ application' = FALSE
    /\ bot' = FALSE
    /\ last_initialization' = None
    /\ initialization_lock' = FALSE
    /\ pc' = "start"
    /\ consecutive_errors' = 0
    /\ wait_time' = 0
    /\ shutdown_event' = FALSE
    /\ news_items' = << >>
    /\ unprocessed_news' = << >>
    /\ attempt' = 0
    /\ waits' = << >>
    /\ results' = << >>
    /\ sent' = << >>
    /\ marked' = {}
    /\ tries' = 0
    /\ fetch_status' = "none"
    /\ prunes' = 0
    /\ UNCHANGED << now, accepted >>

Restart == RestartFrom(file)

\* Time passes while the main task is suspended.
Tick ==
    /\ pc \in Suspended
    /\ \E t \in Instants : t > now /\ now' = t
    /\ UNCHANGED << store_vars, conn_vars, pc, consecutive_errors,
                    wait_time, shutdown_event, batch_vars, accepted >>

Next ==
    \/ Start
    \/ WaitDone
    \/ FetchOk
    \/ FetchFailed
    \/ CycleError
    \/ ItemBegin
    \/ BatchPrune
    \/ LockAcquire
    \/ AttemptBegin
    \/ InitFailed
    \/ SendOk
    \/ SendFailed
    \/ BackoffDone
    \/ ItemRaised
    \/ SignalShutdown
    \/ FinalShutdown
    \/ Restart
    \/ Tick

Spec == Init /\ [][Next]_vars

\* The scheduler with up to MaxErrorsDeep consecutive failing cycles, on a
\* source that lists one item at most.
NextBackoff ==
    \/ Start
    \/ WaitDone
    \/ FetchSmall
    \/ FetchFailed
    \/ CycleErrorDeep
    \/ ItemBegin
    \/ BatchPrune
    \/ LockAcquire
    \/ AttemptBegin
    \/ InitFailed
    \/ SendOk
    \/ SendFailed
    \/ BackoffDone
    \/ ItemRaised
    \/ SignalShutdown
    \/ FinalShutdown
    \/ Restart
    \/ Tick

SpecBackoff == Init /\ [][NextBackoff]_vars

\* The same scheduler, where run() is entered once the process has started
\* and every sleep of run() ends (asyncio.sleep returns).
SpecBackoffLive ==
    Init /\ [][NextBackoff]_vars /\ WF_vars(Start) /\ WF_vars(WaitDone)

\* The process is started again after it stopped.
Relaunch == pc = "stopped" /\ Restart

\* The steps of the main task: run() and, after it, main's finally.
MainTask ==
    \/ Start
    \/ WaitDone
    \/ FetchSmall
    \/ FetchFailed
    \/ CycleError
    \/ ItemBegin
    \/ BatchPrune
    \/ LockAcquire
    \/ AttemptBegin
    \/ InitFailed
    \/ SendOk
    \/ SendFailed
    \/ BackoffDone
    \/ ItemRaised
    \/ FinalShutdown

\* A process that is never killed, on a source that lists one item at most.
\* Every await of the main task returns (a sleep ends, a request is answered
\* or fails), so the main task always takes its next step.
NextShutdown ==
    \/ MainTask
    \/ SignalShutdown
    \/ Relaunch
    \/ Tick

SpecShutdown == Init /\ [][NextShutdown]_vars /\ WF_vars(MainTask)

\* shutdown() lines 123-138 called on a monitor whose run() was never
\* entered.  No path of main() makes this call; it is the operation taken on
\* its own.
EarlyShutdown ==
    /\ pc = "start"
    /\ \E o \in PersistOutcomes : shutdown_body(o)
    /\ pc' = "stopped"
    /\ UNCHANGED << now, consecutive_errors, wait_time, batch_vars, accepted >>

\* The program on a source that lists one item at most, and a monitor that
\* may be shut down before it runs.
NextEarly ==
    \/ MainTask
    \/ SignalShutdown
    \/ EarlyShutdown
    \/ Restart
    \/ Tick

SpecEarly == Init /\ [][NextEarly]_vars

\* A clock that takes the instants around the age at which a connection is
\* renewed, and a source that lists dated items of either link.
TTLInstants == { 0, TTL_SECONDS, TTL_SECONDS + 1 }

TickTTL ==
    /\ pc \in Suspended
    /\ \E t \in TTLInstants : t > now /\ now' = t
    /\ UNCHANGED << store_vars, conn_vars, pc, consecutive_errors,
                    wait_time, shutdown_event, batch_vars, accepted >>

DatedBatches == SeqsUpTo({ [link |-> l, date |-> 1] : l \in Links }, MaxBatch)

FetchDated == FetchOkFrom(DatedBatches)

NextConn ==
    \/ Start
    \/ WaitDone
    \/ FetchDated
    \/ FetchFailed
    \/ CycleError
    \/ ItemBegin
    \/ BatchPrune
    \/ LockAcquire
    \/ AttemptBegin
    \/ InitFailed
    \/ SendOk
    \/ SendFailed
    \/ BackoffDone
    \/ ItemRaised
    \/ SignalShutdown
    \/ FinalShutdown
    \/ Restart
    \/ TickTTL

SpecConn == Init /\ [][NextConn]_vars

\* Files the program did not write itself: each link has no record, a record
\* of the first instant, or a record whose processed_at cannot be read.
ForeignFiles ==
    { [ok |-> TRUE, data |-> d] :
        d \in [Links -> { NoRec, [processed_at |-> InstantSeq[1]],
                          [processed_at |-> BadTime] }] }

\* The process is started on such a file.
RestartForeign == \E f \in ForeignFiles : RestartFrom(f)

NextForeign ==
    \/ MainTask
    \/ SignalShutdown
    \/ Restart
    \/ RestartForeign
    \/ Tick

SpecForeign == Init /\ [][NextForeign]_vars

\* ================================================================ claims
InBatch == pc \in {"item", "try", "locked", "sending", "backoff"}
Last(s) == s[Len(s)]
\* The latest send of the batch has ended.
Resolved == results # << >> /\ Len(sent) = Len(results)
\* The links this batch has had accepted so far.
OkInBatch == { unprocessed_news[i].link : i \in { j \in 1..Len(results) : results[j] = "ok" } }

\* C1 as stated: over all cycles, failures, prunes, persist failures and
\* restarts, the Messaging Client accepts a message for a link at most once:
\* no message is accepted for a link it has accepted one for.
C1_AtMostOnceEver == [][SendOk => Current.link \notin accepted]_vars

\* C1, amended: the Messaging Client accepts no message for a link whose
\* record is in the store, but for a second listing of the link in the very
\* batch that delivered it.  (When the record is gone, by the prune or by a
\* restart that loads a file without it, the link is delivered again.)
C1_NoSendWhileRecorded ==
    [][SendOk => (Current.link \in processed_links => Current.link \in OkInBatch)]_vars

\* C1 witness: a message was accepted in a batch that left out a link which
\* was accepted before and is still recorded.
C1_Witness ==
    /\ Resolved
    /\ Last(results) = "ok"
    /\ \E l \in accepted \cap processed_links :
         \A i \in 1..Len(unprocessed_news) : unprocessed_news[i].link # l

\* Ascending parsed date, the items without one last.
Ascending(s) ==
    \A i, j \in 1..Len(s) :
        i < j => \/ s[j].date = NoDate
                 \/ (s[i].date # NoDate /\ s[i].date <= s[j].date)
IsPrefix(a, b) == Len(a) <= Len(b) /\ \A i \in 1..Len(a) : a[i] = b[i]

\* C2: within one batch send is called on the unprocessed items in ascending
\* parsed-date order, the undated ones last, and an item is marked only when
\* the send of every earlier item has ended (it is the item of the latest
\* send, and every item before it has its result).
C2_OrderedDelivery ==
    [][ /\ Ascending(sent')
        /\ IsPrefix(sent', unprocessed_news')
        /\ Len(results') <= Len(sent')
        /\ Len(sent') <= Len(results') + 1
        /\ \A i \in marked' \ marked :
             /\ pc = "sending"
             /\ i = Len(sent)
             /\ Len(results) = i - 1
             /\ Len(results') = i ]_vars

\* C2 witness: a batch of a dated and an undated item, both sent, in that
\* order, and the undated one marked after the dated one failed for good.
C2_Witness ==
    /\ Len(sent) = 2
    /\ sent[1].date # NoDate
    /\ sent[2].date = NoDate
    /\ results = << "fail", "ok" >>
    /\ marked = {2}

\* C3: whatever the outcomes of the items (send returned true, returned
\* false, or an unexpected error was raised), the loop ends only when send
\* was called for every item the filter returned, and at all times an item
\* is marked if and only if its send returned true.
C3_PartialFailureIsolation ==
    /\ pc = "prune" =>
          (sent = unprocessed_news /\ Len(results) = Len(unprocessed_news))
    /\ ~InBatch => (pc = "prune" \/ unprocessed_news = << >>)
    /\ \A i \in 1..Len(results) : (i \in marked <=> results[i] = "ok")
    /\ marked \subseteq 1..Len(results)

\* C3 witness: a finished batch whose first item raised and whose second was
\* delivered and marked.
C3_Witness ==
    /\ pc = "prune"
    /\ Len(unprocessed_news) = 2
    /\ results = << "raise", "ok" >>
    /\ marked = {2}
    /\ unprocessed_news[2].link \in processed_links

\* C4 as stated: a failed fetch is a cycle-level failure: the error count is
\* incremented and the next wait is min(2^count * 30, 3600), not checkInterval.
C4_FetchFailureBacksOff ==
    (pc = "sleeping" /\ fetch_status = "failed") =>
        /\ consecutive_errors >= 1
        /\ wait_time = Min(2 ^ consecutive_errors * 30, 3600)

\* C5: a cycle that fails makes the count one more and waits
\* min(2^count * 30, 3600) seconds (60 after a success, 240 for the third
\* failure in a row, 3600 for the eighth); a cycle that succeeds makes the
\* count 0 and waits checkInterval.
C5_Backoff ==
    [][ (pc # "sleeping" /\ pc' = "sleeping") =>
          IF fetch_status' = "raised"
          THEN /\ consecutive_errors' = consecutive_errors + 1
               /\ wait_time' = Min(2 ^ consecutive_errors' * 30, 3600)
               /\ (consecutive_errors = 0 => wait_time' = 60)
               /\ (consecutive_errors' = 3 => wait_time' = 240)
               /\ (consecutive_errors' = 8 => wait_time' = 3600)
          ELSE /\ consecutive_errors' = 0
               /\ wait_time' = 600 ]_vars

\* C5 witness: the eighth failure in a row, waiting the capped 3600 seconds.
C5_Witness ==
    /\ pc = "sleeping"
    /\ fetch_status = "raised"
    /\ consecutive_errors = 8
    /\ wait_time = 3600

\* C6 as stated: every cycle that ends without a cycle-level failure has
\* called the prune exactly once, whatever the fetch returned.
C6_PruneEveryCycle ==
    (pc = "sleeping" /\ fetch_status \in {"ok", "failed"}) => prunes = 1

\* C7: when every item the fetch returned is in the store, the cycle ends
\* there: no send is called, no message accepted, and mapping, index and file
\* are what they were.
C7_NothingNew ==
    [][ ( /\ pc = "fetching"
          /\ fetch_status' = "ok"
          /\ \A i \in 1..Len(news_items') : news_items'[i].link \in processed_links )
        => /\ pc' = "sleeping"
           /\ sent' = << >>
           /\ tries' = 0
           /\ accepted' = accepted
           /\ processed_news' = processed_news
           /\ processed_links' = processed_links
           /\ file' = file ]_vars

\* C7 witness: a cycle over, whose fetch listed items, all of them recorded.
C7_Witness ==
    /\ pc = "sleeping"
    /\ fetch_status = "ok"
    /\ news_items # << >>
    /\ \A i \in 1..Len(news_items) : news_items[i].link \in processed_links
    /\ sent = << >>

\* C8: a send whose first k attempts fail and whose attempt k+1 succeeds
\* (k < maxRetries) returns true after exactly k+1 attempts, and the wait
\* before attempt i+1 is min(2^(i-1) * 5, 60) seconds.
C8_RetrySuccess ==
    /\ \A i \in 1..Len(waits) : waits[i] = Min(2 ^ (i - 1) * 5, 60)
    /\ (Resolved /\ Last(results) = "ok") =>
          /\ tries = Len(waits) + 1
          /\ tries = attempt + 1
          /\ Len(waits) < max_retries
          /\ (Len(waits) = 2 => waits = << 5, 10 >>)

\* C8 witness: two failed attempts, then the third accepted.
C8_Witness ==
    /\ Resolved
    /\ Last(results) = "ok"
    /\ tries = 3
    /\ waits = << 5, 10 >>

\* C9: whatever attempts fail, in the underlying send or in building the
\* connection, the send ends with a boolean: false exactly when maxRetries
\* attempts were made and all failed, true as soon as an attempt succeeds;
\* a failed attempt that is not the last one is followed by a wait.
C9_SendReturnsBoolean ==
    [][ /\ tries' <= max_retries
        /\ (SendFailed \/ InitFailed) =>
             \/ (tries' < max_retries /\ pc' = "backoff" /\ results' = results)
             \/ (tries' = max_retries /\ results' = Append(results, "fail"))
        /\ SendOk => results' = Append(results, "ok")
        /\ (Len(results') = Len(results) + 1 /\ Last(results') = "fail") =>
             (tries' = max_retries /\ Len(waits') = max_retries - 1) ]_vars

\* C9 witness: a send that returned false after three attempts, the last of
\* which failed in building the connection.
C9_Witness ==
    /\ Resolved
    /\ Last(results) = "fail"
    /\ tries = 3
    /\ ~application
    /\ pc \in {"item", "prune"}

\* C10: marking a link that is not in the store puts it there with
\* processedAt = now; marking a link that is in the store changes nothing:
\* its record keeps the first processedAt and nothing is written; no other
\* record is touched either way.
C10_MarkIdempotent ==
    [][ SendOk =>
          LET l == Current.link IN
          /\ l \in processed_links'
          /\ processed_news'[l] # NoRec
          /\ (l \notin processed_links => processed_news'[l].processed_at = now)
          /\ (l \in processed_links =>
                /\ processed_news'[l] = processed_news[l]
                /\ file' = file)
          /\ processed_links' = processed_links \cup {l}
          /\ \A k \in Links \ {l} : processed_news'[k] = processed_news[k] ]_vars

\* C10 witness: a link listed twice in a batch was marked twice, the second
\* time later than the first, and its record has the first time.
C10_Witness ==
    /\ pc = "prune"
    /\ marked = {1, 2}
    /\ unprocessed_news[1].link = unprocessed_news[2].link
    /\ processed_news[unprocessed_news[1].link].processed_at < now

\* out is in picked out by the positions keep, in their order.
PickedBy(out, in, keep) ==
    \E f \in [1..Len(out) -> 1..Len(in)] :
        /\ \A i, j \in 1..Len(out) : i < j => f[i] < f[j]
        /\ \A i \in 1..Len(out) : out[i] = in[f[i]]
        /\ { f[i] : i \in 1..Len(out) } = keep

\* C11: what the filter returns is exactly the fetched items whose link is not
\* in the store, each of them once per listing, in the order of the fetch.
C11_FilterExact ==
    [][ (pc = "fetching" /\ fetch_status' = "ok") =>
          /\ PickedBy(unprocessed_news', news_items',
                      { j \in 1..Len(news_items') :
                            news_items'[j].link \notin processed_links })
          /\ \A i \in 1..Len(unprocessed_news') :
                unprocessed_news'[i].link \notin processed_links ]_vars

\* C11 witness: a fetch of a recorded item and then a new one; the filter
\* returned the new one alone.
C11_Witness ==
    /\ pc = "item"
    /\ Len(news_items) = 2
    /\ news_items[1].link \in processed_links
    /\ unprocessed_news = << news_items[2] >>

\* C12 as stated: the prune that ends a batch removes exactly the records
\* whose processedAt is more than 30 days (2 592 000 seconds) before now, and
\* leaves every other record as it was.
C12_PruneExact ==
    [][ BatchPrune =>
          \A l \in Links :
             IF l \in processed_links
                /\ now - processed_news[l].processed_at > 30 * 86400
             THEN l \notin processed_links' /\ processed_news'[l] = NoRec
             ELSE processed_news'[l] = processed_news[l]
                  /\ (l \in processed_links' <=> l \in processed_links) ]_vars

\* The steps that call cleanup_old_entries.
PruneStep == BatchPrune \/ SignalShutdown \/ FinalShutdown

\* C13: a prune calls the save if and only if it removed a record; when it
\* removed none, mapping, index and file are what they were; and a second
\* prune at the same instant, whatever its write would do, removes nothing
\* and does not save.
C13_PruneWritesIffRemoved ==
    [][ PruneStep =>
          /\ (saved' <=> processed_links' # processed_links)
          /\ (processed_links' = processed_links =>
                 (processed_news' = processed_news /\ file' = file))
          /\ LET after == [news |-> processed_news', links |-> processed_links',
                           file |-> file', saved |-> FALSE]
             IN \A o \in PersistOutcomes :
                   cleanup_old_entries(after, now, o) = after ]_vars

\* C13 witness: the prune that ended a batch removed the record of a link
\* delivered before, and saved.
C13_Witness ==
    /\ pc = "sleeping"
    /\ prunes = 1
    /\ ~shutdown_event
    /\ saved
    /\ accepted \ processed_links # {}

\* C14: at all times, after the load and after every mark and prune, whether
\* their write succeeded or not, the links that have a record in the mapping
\* are the links of the index.
C14_StoreConsistent ==
    { l \in Links : processed_news[l] # NoRec } = processed_links

\* C14 witness: two links are recorded; the second was just marked and the
\* write of that mark failed, so the file still has the first alone.
C14_Witness ==
    /\ pc \in {"item", "prune"}
    /\ Resolved
    /\ Last(results) = "ok"
    /\ saved
    /\ file.ok
    /\ file.data # processed_news
    /\ Cardinality(processed_links) = 2
    /\ Keys(file.data) # {}

\* C15 as stated: when mark_as_processed has returned for an item, the record
\* of its link is in the persisted file.
C15_WriteThenAcknowledge ==
    (pc \in {"item", "prune"} /\ Resolved /\ Last(results) = "ok") =>
        LET l == unprocessed_news[Len(results)].link IN
        /\ l \in processed_links
        /\ file.ok
        /\ file.data[l] # NoRec

\* C16: a start that finds the file unreadable or unparsable goes on to run,
\* with an empty mapping and an empty index; and a fetch that finds the index
\* empty treats every item as unprocessed.
C16_LoadNeverFails ==
    [][ /\ (Restart /\ ~file.ok) =>
             /\ processed_news' = EmptyMap
             /\ processed_links' = {}
             /\ pc' = "start"
        /\ (pc = "fetching" /\ fetch_status' = "ok" /\ processed_links = {}) =>
             unprocessed_news' = news_items' ]_vars

\* C16 witness: the file is unparsable, the process was started again, and
\* its fetch takes a link delivered before the restart for new (no time has
\* passed, so no prune emptied the store).
C16_Witness ==
    /\ pc = "item"
    /\ now = InstantSeq[1]
    /\ ~file.ok
    /\ processed_links = {}
    /\ news_items # << >>
    /\ unprocessed_news = news_items
    /\ \E i \in 1..Len(news_items) : news_items[i].link \in accepted

\* C17 as stated: when the scheduler has stopped after a shutdown request, no
\* connection is held.
C17_StoppedReleased ==
    pc = "stopped" => (~application /\ ~bot /\ last_initialization = None)

\* C18: while the process runs the shutdown flag never goes back to false;
\* once it is set no fetch is started; and, the awaits in flight returning,
\* the scheduler reaches Stopped.
C18_BoundedLatencyShutdown ==
    /\ [][ /\ (shutdown_event /\ ~shutdown_event') => (pc = "stopped" /\ pc' = "start")
           /\ shutdown_event => ~(pc # "fetching" /\ pc' = "fetching") ]_vars
    /\ (shutdown_event ~> pc = "stopped")

\* C18 witness: the scheduler stopped on a request, after a cycle that
\* delivered its batch and after the sleep that followed it.
C18_Witness ==
    /\ pc = "stopped"
    /\ shutdown_event
    /\ fetch_status = "ok"
    /\ prunes = 1
    /\ accepted # {}

\* C19 as stated: while a cycle is between its fetch and the end of its
\* deliveries, nothing but the loop's own steps changes the store: a step
\* that leaves the loop where it is leaves mapping, index and file alone.
C19_ShutdownAfterLoop ==
    [][ (pc \in {"fetching", "item", "try", "locked", "sending", "backoff", "prune"}
           /\ pc' = pc) =>
          /\ processed_news' = processed_news
          /\ processed_links' = processed_links
          /\ file' = file ]_vars

\* C20 as stated: while the process runs, every step that builds the
\* connection or tears it down is taken with the initialization lock held.
C20_GuardedConnection ==
    [][ ( /\ pc' # "start"
          /\ \/ application' # application
             \/ bot' # bot
             \/ last_initialization' # last_initialization )
        => initialization_lock ]_vars

\* The positions of the batch whose send did not return true.
FailedInBatch == { i \in 1..Len(results) : results[i] # "ok" }

\* C21 as stated: a cycle whose batch had failed items ends as a successful
\* cycle (count 0, wait checkInterval), and the link of each failed item is
\* not in the store when the cycle ends.
C21_FailedItemsAbsent ==
    [][ (BatchPrune /\ FailedInBatch # {}) =>
          /\ consecutive_errors' = 0
          /\ wait_time' = check_interval
          /\ pc' = "sleeping"
          /\ \A i \in FailedInBatch :
                unprocessed_news[i].link \notin processed_links' ]_vars

\* C21, amended: the same, but for a failed item whose link the batch lists a
\* second time and delivers under that other listing: only such a failed
\* item can be in the store when the cycle ends.
C21_NoEscalation ==
    [][ (BatchPrune /\ FailedInBatch # {}) =>
          /\ consecutive_errors' = 0
          /\ wait_time' = check_interval
          /\ pc' = "sleeping"
          /\ \A i \in FailedInBatch :
                (unprocessed_news[i].link \in processed_links' =>
                    unprocessed_news[i].link \in OkInBatch) ]_vars

\* C21 witness: a cycle has ended in the normal wait; the last delivery
\* attempt of its batch failed (the connection was torn down and not built
\* again) and nothing is in the store.
C21_Witness ==
    /\ pc = "sleeping"
    /\ fetch_status = "ok"
    /\ prunes = 1
    /\ ~application
    /\ consecutive_errors = 0
    /\ wait_time = check_interval
    /\ processed_links = {}
    /\ accepted = {}

\* C22: after a failed cycle, whatever the number of failures in a row (5 and
\* more included), and as long as no shutdown was requested, the wait can
\* only end in a new cycle (or in the process being killed and started
\* again), and it does end: the scheduler starts another cycle.
C22_LoopGoesOn ==
    /\ [][ (pc = "sleeping" /\ fetch_status = "raised" /\ ~shutdown_event
              /\ pc' # pc) => pc' \in {"fetching", "start"} ]_vars
    /\ \A n \in 1..MaxErrorsDeep :
          (pc = "sleeping" /\ fetch_status = "raised"
             /\ consecutive_errors = n /\ ~shutdown_event)
          ~> (pc \in {"fetching", "start"} \/ shutdown_event)

\* C22 witness: a cycle has started after six failed cycles in a row.
C22_Witness ==
    /\ pc = "fetching"
    /\ consecutive_errors = 6
    /\ ~shutdown_event
    /\ fetch_status = "none"

\* C23 as stated: shutdown on a monitor that never ran sets the flag and
\* leaves mapping, index, file and connection as they were.
C23_EarlyShutdownNoOp ==
    [][ EarlyShutdown =>
          /\ shutdown_event'
          /\ processed_news' = processed_news
          /\ processed_links' = processed_links
          /\ file' = file
          /\ application' = application
          /\ bot' = bot
          /\ last_initialization' = last_initialization ]_vars

\* C23, amended: shutdown on a monitor that never ran ends normally, sets the
\* flag, leaves the connection as it was, and does to the store what its
\* final prune does: the records that are 31 days old or more are removed,
\* and when there is none mapping, index and file are what they were.
C23_EarlyShutdownPrunes ==
    [][ EarlyShutdown =>
          /\ shutdown_event'
          /\ pc' = "stopped"
          /\ application' = application
          /\ bot' = bot
          /\ last_initialization' = last_initialization
          /\ processed_links' =
                { l \in processed_links :
                    (now - processed_news[l].processed_at) \div 86400 <= 30 }
          /\ \A l \in processed_links' : processed_news'[l] = processed_news[l]
          /\ (processed_links' = processed_links =>
                 (processed_news' = processed_news /\ file' = file)) ]_vars

\* C23 witness: a monitor was shut down before it ran, and the prune of its
\* shutdown removed a record it had loaded and wrote the file.
C23_Witness ==
    /\ pc = "stopped"
    /\ fetch_status = "none"
    /\ shutdown_event
    /\ saved
    /\ accepted \ processed_links # {}

\* C24: a connection is only ever created by a delivery attempt, on its way
\* to the send; and an attempt creates one, initialized now, when there is
\* none or when the one there was initialized more than 3600 seconds ago,
\* and otherwise goes on with the one there, initialization time unchanged.
C24_ConnectionLifecycle ==
    [][ /\ (application' /\ (~application
                              \/ last_initialization' # last_initialization))
             => (pc = "locked" /\ pc' = "sending")
        /\ (pc = "locked" /\ pc' = "sending") =>
             IF ~application \/ now - last_initialization > 3600
             THEN application' /\ bot' /\ last_initialization' = now
             ELSE application' /\ bot' /\ last_initialization' = last_initialization
      ]_vars

\* C24 witness: the first item of a batch was delivered and marked at 3600;
\* the attempt for the second goes on with the connection made at 0, which
\* is exactly 3600 seconds old.
C24_Witness ==
    /\ pc = "sending"
    /\ now = 3600
    /\ results = << "ok" >>
    /\ processed_news[unprocessed_news[1].link].processed_at = 3600
    /\ tries = 1
    /\ application
    /\ last_initialization = 0

\* C25: a delivery attempt that fails leaves no connection: handle, bot and
\* initialization time are all cleared; the attempt that follows it in the
\* same send makes a new connection, initialized now, before it sends; and a
\* teardown changes nothing when there is no connection, so that two in a
\* row do what one does.
C25_TeardownAndRecreate ==
    [][ /\ (SendFailed \/ InitFailed) =>
             (~application' /\ ~bot' /\ last_initialization' = None)
        /\ (pc = "locked" /\ pc' = "sending" /\ tries >= 1) =>
             /\ ~application /\ ~bot /\ last_initialization = None
             /\ application' /\ bot' /\ last_initialization' = now
        /\ (~application => cleanup(Conn) = Conn)
        /\ cleanup(cleanup(Conn)) = cleanup(Conn) ]_vars

\* C25 witness: the first attempt for the second item of a batch failed;
\* its second attempt is under way on a connection initialized at 3600.
C25_Witness ==
    /\ pc = "sending"
    /\ tries = 2
    /\ results = << "ok" >>
    /\ application
    /\ bot
    /\ now = 3600
    /\ last_initialization = 3600

\* C26: a prune of a store that has a record whose processedAt is missing or
\* unparsable ends normally, removes nothing, however old the other records
\* are, does not save, and leaves mapping, index and file as they were.
C26_PruneAllOrNothing ==
    [][ (PruneStep /\ \E l \in processed_links :
                         processed_news[l].processed_at = BadTime) =>
          /\ processed_news' = processed_news
          /\ processed_links' = processed_links
          /\ file' = file
          /\ ~saved' ]_vars

\* C26 witness: the scheduler has stopped, its two shutdown prunes done, with
\* an unreadable record in the store and next to it a record that is 31 days
\* old.
C26_Witness ==
    /\ pc = "stopped"
    /\ \E l, k \in processed_links :
          /\ processed_news[l].processed_at = BadTime
          /\ processed_news[k].processed_at = 0
          /\ now - processed_news[k].processed_at >= 31 * 86400

====
